---- MODULE Spec2Model ----
(***************************************************************************)
(* Movie theater booking application (homework2/movie_theater_booking).    *)
(* The store holds movies, seats and bookings; the Flask handlers of       *)
(* app.py read and mutate it.  Spec runs each handler as one request at a  *)
(* time; SpecConc runs the booking handlers as interleaved requests, one   *)
(* step per store access.                                                  *)
(***************************************************************************)
EXTENDS Integers, Sequences, FiniteSets, TLC

VARIABLES movies, seats, bookings, last, pc, req, reply, input, output

vars == <<movies, seats, bookings, last, pc, req, reply, input, output>>
store == <<movies, seats, bookings>>
workers == <<pc, req, reply>>
validation == <<input, output>>

(***************************************************************************)
(* Bounds of the model.                                                    *)
(***************************************************************************)
NumMovies == 1
NumSeats == 2
MaxBookingId == 2

MaxMovieId == 2
NumProcs == 2

Procs == 1..NumProcs

MovieIds == 1..NumMovies
SeatIds == 1..NumSeats

(***************************************************************************)
(* JSON values of a request body.  A field is missing, null, a number or a *)
(* string; a string is a sequence of one-character strings.  In a showtime *)
(* text "D" stands for a well-formed YYYY-MM-DD chunk and "H" for a        *)
(* well-formed HH:MM chunk.                                                *)
(***************************************************************************)
Missing == [k |-> "missing", n |-> 0, s |-> <<>>]
Null == [k |-> "null", n |-> 0, s |-> <<>>]
IntV(n) == [k |-> "int", n |-> n, s |-> <<>>]
StrV(s) == [k |-> "str", n |-> 0, s |-> s]

\* Python truthiness of data.get(field): absent/None/0/"" are falsy.
Truthy(v) == \/ v.k = "int" /\ v.n # 0
             \/ v.k = "str" /\ v.s # <<>>

\* `field in data`
Present(v) == v.k # "missing"

Digits == {"0", "1", "2", "3"}
DigitVal(c) == CASE c = "0" -> 0 [] c = "1" -> 1 [] c = "2" -> 2 [] OTHER -> 3

\* str.strip(): surrounding whitespace removed.
RECURSIVE LStrip(_)
LStrip(s) == IF s # <<>> /\ Head(s) = " " THEN LStrip(Tail(s)) ELSE s
RECURSIVE RStrip(_)
RStrip(s) == IF s # <<>> /\ s[Len(s)] = " " THEN RStrip(SubSeq(s, 1, Len(s) - 1)) ELSE s
Strip(s) == RStrip(LStrip(s))

RECURSIVE DecimalValue(_)
DecimalValue(s) == IF s = <<>> THEN 0
                   ELSE 10 * DecimalValue(SubSeq(s, 1, Len(s) - 1)) + DigitVal(s[Len(s)])

\* int(x) succeeds on a number and on a string of digits with optional
\* surrounding whitespace; otherwise it raises ValueError/TypeError.
IntParses(v) == \/ v.k = "int"
                \/ v.k = "str" /\ Strip(v.s) # <<>> /\ \A i \in 1..Len(Strip(v.s)) : Strip(v.s)[i] \in Digits
IntOf(v) == IF v.k = "int" THEN v.n ELSE DecimalValue(Strip(v.s))

\* parsed_data holds None for an id that was not parsed.
NoneId == -1
NoneTime == <<>>

\* datetime.strptime(text, '%Y-%m-%dT%H:%M') / '%Y-%m-%d %H:%M'
ParsesT(s) == s = <<"D", "T", "H">>
ParsesSpace(s) == s = <<"D", " ", "H">>
TimeOf(s) == <<s[1], s[3]>>

\* x.strip() and strptime(x, ...) on a number raise AttributeError/TypeError,
\* which deserialize does not catch.
StripRaises(v) == Truthy(v) /\ v.k = "int"

Contains(s, c) == \E i \in 1..Len(s) : s[i] = c

StripOrEmpty(v) == IF Truthy(v) /\ v.k = "str" THEN Strip(v.s) ELSE <<>>

RequiredMessage(field) ==
    CASE field = "movie_id" -> "Movie Id is required"
      [] field = "seat_id" -> "Seat Id is required"
      [] OTHER -> "User Name is required"

BookingErrorFields(data) ==
    LET email == StripOrEmpty(data.user_email)
    IN  {f \in {"movie_id", "seat_id", "user_name"} : ~Present(data[f]) \/ ~Truthy(data[f])}
        \cup {f \in {"movie_id", "seat_id"} : Truthy(data[f]) /\ ~IntParses(data[f])}
        \cup (IF Truthy(data.showtime) /\ ~ParsesT(data.showtime.s) /\ ~ParsesSpace(data.showtime.s)
              THEN {"showtime"} ELSE {})
        \cup (IF email # <<>> /\ ~Contains(email, "@") THEN {"user_email"} ELSE {})

BookingErrorMessage(data, f) ==
    CASE f = "showtime" -> "Showtime must be in YYYY-MM-DDTHH:MM format"
      [] f = "user_email" -> "Invalid email format"
      [] f = "movie_id" /\ Truthy(data[f]) -> "Movie ID must be a valid integer"
      [] f = "seat_id" /\ Truthy(data[f]) -> "Seat ID must be a valid integer"
      [] OTHER -> RequiredMessage(f)

\* BookingSerializer.deserialize: (parsed_data, errors), or an exception.
BookingSerializer_deserialize(data) ==
    [raised |-> \/ StripRaises(data.user_name)
                \/ StripRaises(data.user_email)
                \/ StripRaises(data.showtime),
     parsed |-> [movie_id |-> IF Truthy(data.movie_id) /\ IntParses(data.movie_id)
                              THEN IntOf(data.movie_id) ELSE NoneId,
                 seat_id |-> IF Truthy(data.seat_id) /\ IntParses(data.seat_id)
                             THEN IntOf(data.seat_id) ELSE NoneId,
                 user_name |-> StripOrEmpty(data.user_name),
                 user_email |-> StripOrEmpty(data.user_email),
                 showtime |-> IF Truthy(data.showtime) /\ data.showtime.k = "str"
                                 /\ (ParsesT(data.showtime.s) \/ ParsesSpace(data.showtime.s))
                              THEN TimeOf(data.showtime.s) ELSE NoneTime],
     errors |-> [f \in BookingErrorFields(data) |-> BookingErrorMessage(data, f)]]

\* A date value, as stored in a Date column.
DateV(n) == [k |-> "date", n |-> n, s |-> <<>>]

\* datetime.strptime(text, '%Y-%m-%d').date()
ParsesDate(s) == s = <<"D">>
DateOf(s) == DateV(Len(s))

\* The text fields of a movie: stripped, or the default when falsy.
StripOr(v, default) == IF Truthy(v) /\ v.k = "str" THEN StrV(Strip(v.s)) ELSE default

\* int(data['duration']) returned and is negative.
NegativeDuration(v) == Truthy(v) /\ IntParses(v) /\ IntOf(v) < 0

MovieErrorFields(data) ==
    (IF ~Present(data.title) \/ ~Truthy(data.title) THEN {"title"} ELSE {})
    \cup (IF Truthy(data.duration) /\ (~IntParses(data.duration) \/ NegativeDuration(data.duration))
          THEN {"duration"} ELSE {})
    \cup (IF Truthy(data.release_date) /\ data.release_date.k = "str"
             /\ ~ParsesDate(data.release_date.s)
          THEN {"release_date"} ELSE {})

MovieErrorMessage(data, f) ==
    CASE f = "title" -> "Title is required"
      [] f = "duration" /\ NegativeDuration(data.duration) -> "Duration must be a positive number"
      [] f = "duration" -> "Duration must be a valid integer"
      [] OTHER -> "Release date must be in YYYY-MM-DD format"

\* MovieSerializer.deserialize: (parsed_data, errors), or an exception.
MovieSerializer_deserialize(data) ==
    [raised |-> \/ StripRaises(data.title)
                \/ StripRaises(data.description)
                \/ StripRaises(data.poster)
                \/ StripRaises(data.release_date),
     parsed |-> [title |-> StripOr(data.title, StrV(<<>>)),
                 description |-> StripOr(data.description, StrV(<<>>)),
                 duration |-> IF Truthy(data.duration) /\ IntParses(data.duration)
                              THEN IntV(IntOf(data.duration)) ELSE Null,
                 release_date |-> IF Truthy(data.release_date) /\ data.release_date.k = "str"
                                     /\ ParsesDate(data.release_date.s)
                                  THEN DateOf(data.release_date.s) ELSE Null,
                 poster |-> StripOr(data.poster, Null)],
     errors |-> [f \in MovieErrorFields(data) |-> MovieErrorMessage(data, f)]]

(***************************************************************************)
(* Request inputs.  Path ids range over the ids of the initial rows and    *)
(* one id beyond them.  Booking bodies are the well-formed bodies over those ids  *)
(* plus bodies that vary one field of a well-formed body through the       *)
(* malformed values.                                                       *)
(***************************************************************************)
PathMovieIds == 1..(NumMovies + 1)
PathSeatIds == 1..(NumSeats + 1)
PathBookingIds == 1..(MaxBookingId + 1)

GoodName == StrV(<<"a">>)

IdValues(ids) == {IntV(i) : i \in ids}
BadIdValues == {Missing, Null, IntV(0), StrV(<<"x">>), StrV(<<" ", "1">>)}
NameValues == {Missing, StrV(<<>>), StrV(<<" ", "a">>), IntV(7)}
EmailValues == {StrV(<<"a">>), IntV(7)}
ShowtimeValues == {StrV(<<"D">>), IntV(7)}

Body(m, s, u, e, t) ==
    [movie_id |-> m, seat_id |-> s, user_name |-> u, user_email |-> e, showtime |-> t]

WellFormedBodies ==
    {Body(m, s, GoodName, Missing, Missing) :
        m \in IdValues(PathMovieIds), s \in IdValues(PathSeatIds)}

MalformedBodies ==
    {Body(m, IntV(1), GoodName, Missing, Missing) : m \in BadIdValues}
    \cup {Body(IntV(1), s, GoodName, Missing, Missing) : s \in BadIdValues}
    \cup {Body(IntV(1), IntV(1), u, Missing, Missing) : u \in NameValues}
    \cup {Body(IntV(1), IntV(1), GoodName, e, Missing) : e \in EmailValues}
    \cup {Body(IntV(1), IntV(1), GoodName, Missing, t) : t \in ShowtimeValues}
    \cup {Body(Missing, Missing, Missing, Missing, Missing)}

BookingBodies == WellFormedBodies \cup MalformedBodies

\* Movie bodies.  A created movie is titled "b"; the other bodies vary one
\* field of that body, or leave the title out.
MovieBody(t, d, r, n, q) ==
    [title |-> t, description |-> d, release_date |-> r, duration |-> n, poster |-> q]

TitleOnly == MovieBody(StrV(<<"b">>), Missing, Missing, Missing, Missing)
EmptyMovieBody == MovieBody(Missing, Missing, Missing, Missing, Missing)

TitleValues == {Missing, Null, StrV(<<>>), StrV(<<" ">>), StrV(<<" ", "b">>), IntV(7)}
TextValues == {Null, StrV(<<"e", " ">>), IntV(7)}
DateValues == {Null, StrV(<<"D">>), StrV(<<"x">>), IntV(7)}
DurationValues == {Null, IntV(0), IntV(2), IntV(0 - 1), StrV(<<"2">>), StrV(<<"x">>)}

MovieBodies ==
    {MovieBody(t, Missing, Missing, Missing, Missing) : t \in TitleValues \cup {StrV(<<"b">>)}}
    \cup {MovieBody(StrV(<<"b">>), d, Missing, Missing, Missing) : d \in TextValues}
    \cup {MovieBody(StrV(<<"b">>), Missing, r, Missing, Missing) : r \in DateValues}
    \cup {MovieBody(StrV(<<"b">>), Missing, Missing, n, Missing) : n \in DurationValues}
    \cup {MovieBody(StrV(<<"b">>), Missing, Missing, Missing, q) : q \in TextValues}
    \cup {MovieBody(t, Missing, r, n, Missing) :
            t \in {Missing, StrV(<<"b">>)}, r \in {Missing, StrV(<<"x">>)},
            n \in {Missing, IntV(0 - 1), StrV(<<"x">>)}}

\* Update bodies: every subset of the five fields, each present field with
\* one new value of its column's type, and bodies with a null title, a null
\* poster, or a release_date that is no date text.
FullUpdate == MovieBody(StrV(<<"b">>), StrV(<<"e">>), StrV(<<"D">>), IntV(2), StrV(<<"q">>))

OrMissing(v) == {Missing, v}

SubsetUpdates ==
    {MovieBody(t, d, r, n, q) :
        t \in OrMissing(FullUpdate.title), d \in OrMissing(FullUpdate.description),
        r \in OrMissing(FullUpdate.release_date), n \in OrMissing(FullUpdate.duration),
        q \in OrMissing(FullUpdate.poster)}

UpdateBodies ==
    SubsetUpdates
    \cup {[FullUpdate EXCEPT !.title = Null], [EmptyMovieBody EXCEPT !.poster = Null]}
    \cup {[FullUpdate EXCEPT !.release_date = r] : r \in {StrV(<<"x">>), IntV(7)}}
    \cup {[EmptyMovieBody EXCEPT !.release_date = StrV(<<"x">>)]}

\* Form fields of POST /bookings/create: text, or absent.
FormIdValues(ids) == {StrV(<<c>>) : c \in {d \in Digits : DigitVal(d) \in ids}}

FormBodies ==
    {Body(m, s, GoodName, Missing, Missing) :
        m \in FormIdValues(PathMovieIds), s \in FormIdValues(PathSeatIds)}
    \cup {Body(m, StrV(<<"1">>), GoodName, Missing, Missing) : m \in {Missing, StrV(<<"x">>)}}
    \cup {Body(StrV(<<"1">>), x, GoodName, Missing, Missing) : x \in {Missing, StrV(<<"x">>)}}
    \cup {Body(StrV(<<"1">>), StrV(<<"1">>), u, Missing, Missing) : u \in {Missing, StrV(<<>>)}}
    \cup {Body(StrV(<<"1">>), StrV(<<"1">>), GoodName, Missing, StrV(<<"D">>))}

\* Names in the path of GET /api/bookings/user/<user_name>.
PathNames == {<<"a">>, <<"z">>}

(***************************************************************************)
(* The store.  movies: the Movie rows, by id; seats: is_booked of each     *)
(* Seat row, by id; bookings: the Booking rows.                            *)
(***************************************************************************)
BookingRow(id, p) ==
    [id |-> id, movie_id |-> p.movie_id, seat_id |-> p.seat_id,
     user_name |-> p.user_name, user_email |-> p.user_email, showtime |-> p.showtime]

BookingIdsOf(bs) == {b.id : b \in bs}

\* Integer primary key: the store assigns the largest id in use plus one.
RECURSIVE MaxOf(_)
MaxOf(S) == IF S = {} THEN 0
            ELSE LET x == CHOOSE y \in S : \A z \in S : z <= y IN x
NextBookingId(bs) == MaxOf(BookingIdsOf(bs)) + 1

\* Bookings of a seat / of a movie that are live (rows that exist).
LiveOnSeat(bs, s) == {b \in bs : b.seat_id = s}
LiveOfMovie(bs, m) == {b \in bs : b.movie_id = m}

\* What a finished request leaves to see: the handler, the id in its path
\* (the id of the new row for a create), the ids parsed from a booking
\* body that passed validation, the status and error text of the answer,
\* and the ids of the rows a list answer holds, in the order of the list.
BookingResponse(p, id, status, error) ==
    [op |-> "create_booking", id |-> id, movie_id |-> p.movie_id, seat_id |-> p.seat_id,
     status |-> status, error |-> error, rows |-> <<>>]

Response(op, id, status, error) ==
    [op |-> op, id |-> id, movie_id |-> NoneId, seat_id |-> NoneId,
     status |-> status, error |-> error, rows |-> <<>>]

NoResponse == Response("none", 0, 0, "")

\* Variant of NotFound that answers as if the row were there.
NotFound_Found(op, id) == Response(op, id, 200, "")

\* get_or_404 on an id that has no row.
NotFound(op, id) == Response(op, id, 404, "Not Found")

\* A Movie row.  created_at is the clock reading at the insert.
MovieRow(p, now) ==
    [title |-> p.title, description |-> p.description, release_date |-> p.release_date,
     duration |-> p.duration, poster |-> p.poster, created_at |-> now]

\* A sample movie of init_db: title, description, release date and
\* duration given, no poster; the clock reads 0 at setup.
SampleMovie ==
    MovieRow([title |-> StrV(<<"a">>), description |-> StrV(<<"d">>),
              release_date |-> DateV(0), duration |-> IntV(1), poster |-> Null], 0)

NextMovieId(ms) == MaxOf(DOMAIN ms) + 1

\* Clock readings after setup.  No handler compares two readings.
Times == {1}

\* init_db: the sample movies and the seat grid, every seat free, no booking.
InitStore ==
    /\ movies = [m \in MovieIds |-> SampleMovie]
    /\ seats = [s \in SeatIds |-> FALSE]
    /\ bookings = {}

\* What a request in flight holds in its session: the parsed body of
\* create_booking; for cancel_booking the id and seat_id of the booking it
\* loaded, whether Seat.query.get found the seat, and the is_booked it loaded;
\* for delete_movie the id of the movie and the ids of the bookings that
\* session.delete loaded to cascade to.
NoRequest ==
    [movie_id |-> NoneId, seat_id |-> NoneId, user_name |-> <<>>, user_email |-> <<>>,
     showtime |-> NoneTime, booking_id |-> 0, found |-> FALSE, seen |-> FALSE,
     loaded |-> {}]

InitWorkers ==
    /\ pc = [p \in Procs |-> "idle"]
    /\ req = [p \in Procs |-> NoRequest]
    /\ reply = [p \in Procs |-> NoResponse]

\* No mapping has been handed to a serializer, and none has answered.
NoInput == [kind |-> "none", data |-> <<>>]
NoOutput == [kind |-> "none", raised |-> FALSE, parsed |-> <<>>, errors |-> <<>>]

InitValidation == input = NoInput /\ output = NoOutput

Init == InitStore /\ InitWorkers /\ InitValidation /\ last = NoResponse

(***************************************************************************)
(* Handlers, one request at a time.                                        *)
(***************************************************************************)
\* DELETE /api/movies/<id>: the ORM cascade of Movie.bookings deletes the
\* movie's bookings with it; no seat is touched.
delete_movie(movie_id) ==
    IF movie_id \notin DOMAIN movies
    THEN /\ last' = NotFound("delete_movie", movie_id)
         /\ UNCHANGED store
    ELSE /\ movies' = [m \in DOMAIN movies \ {movie_id} |-> movies[m]]
         /\ bookings' = bookings \ LiveOfMovie(bookings, movie_id)
         /\ last' = Response("delete_movie", movie_id, 200, "")
         /\ UNCHANGED seats

\* Variant of book_seat that skips the is_booked check.
book_seat_NoCheck(seat_id) ==
    IF seat_id \notin DOMAIN seats
    THEN /\ last' = NotFound("book_seat", seat_id)
         /\ UNCHANGED store
    ELSE /\ seats' = [seats EXCEPT ![seat_id] = TRUE]
         /\ last' = Response("book_seat", seat_id, 200, "")
         /\ UNCHANGED <<movies, bookings>>

\* POST /api/seats/<id>/book
book_seat(seat_id) ==
    IF seat_id \notin DOMAIN seats
    THEN /\ last' = NotFound("book_seat", seat_id)
         /\ UNCHANGED store
    ELSE IF seats[seat_id]
    THEN /\ last' = Response("book_seat", seat_id, 400, "Seat is already booked")
         /\ UNCHANGED store
    ELSE /\ seats' = [seats EXCEPT ![seat_id] = TRUE]
         /\ last' = Response("book_seat", seat_id, 200, "")
         /\ UNCHANGED <<movies, bookings>>

\* Variant of release_seat that flips the flag instead of clearing it.
release_seat_Toggle(seat_id) ==
    IF seat_id \notin DOMAIN seats
    THEN /\ last' = NotFound("release_seat", seat_id)
         /\ UNCHANGED store
    ELSE /\ seats' = [seats EXCEPT ![seat_id] = ~seats[seat_id]]
         /\ last' = Response("release_seat", seat_id, 200, "")
         /\ UNCHANGED <<movies, bookings>>

\* Variant of release_seat that also deletes the bookings of the seat.
release_seat_Cancelling(seat_id) ==
    IF seat_id \notin DOMAIN seats
    THEN /\ last' = NotFound("release_seat", seat_id)
         /\ UNCHANGED store
    ELSE /\ seats' = [seats EXCEPT ![seat_id] = FALSE]
         /\ bookings' = bookings \ LiveOnSeat(bookings, seat_id)
         /\ last' = Response("release_seat", seat_id, 200, "")
         /\ UNCHANGED movies

\* POST /api/seats/<id>/release
release_seat(seat_id) ==
    IF seat_id \notin DOMAIN seats
    THEN /\ last' = NotFound("release_seat", seat_id)
         /\ UNCHANGED store
    ELSE /\ seats' = [seats EXCEPT ![seat_id] = FALSE]
         /\ last' = Response("release_seat", seat_id, 200, "")
         /\ UNCHANGED <<movies, bookings>>

\* Variant of InsertBooking that adds the row and leaves the seat flag.
InsertBooking_NoFlag(p) ==
    /\ NextBookingId(bookings) <= MaxBookingId
    /\ bookings' = bookings \cup {BookingRow(NextBookingId(bookings), p)}
    /\ UNCHANGED <<movies, seats>>

\* The commit of create_booking: the seat flag and the new row in one
\* transaction.
InsertBooking(p) ==
    /\ NextBookingId(bookings) <= MaxBookingId
    /\ seats' = [seats EXCEPT ![p.seat_id] = TRUE]
    /\ bookings' = bookings \cup {BookingRow(NextBookingId(bookings), p)}
    /\ UNCHANGED movies

\* Variant of BookingRefusal without the is_booked check.
BookingRefusal_NoSeatCheck(p) ==
    IF p.movie_id \notin DOMAIN movies THEN [status |-> 404, error |-> "Movie not found"]
    ELSE IF p.seat_id \notin DOMAIN seats THEN [status |-> 404, error |-> "Seat not found"]
    ELSE [status |-> 0, error |-> ""]

\* Variant of BookingRefusal without the movie lookup.
BookingRefusal_NoMovieCheck(p) ==
    IF p.seat_id \notin DOMAIN seats THEN [status |-> 404, error |-> "Seat not found"]
    ELSE IF seats[p.seat_id] THEN [status |-> 400, error |-> "Seat is already booked"]
    ELSE [status |-> 0, error |-> ""]

\* The checks of create_booking against the store, in the handler's order:
\* the first one that refuses the request, or status 0 when none does.
BookingRefusal(p) ==
    IF p.movie_id \notin DOMAIN movies THEN [status |-> 404, error |-> "Movie not found"]
    ELSE IF p.seat_id \notin DOMAIN seats THEN [status |-> 404, error |-> "Seat not found"]
    ELSE IF seats[p.seat_id] THEN [status |-> 400, error |-> "Seat is already booked"]
    ELSE [status |-> 0, error |-> ""]

\* BookingSerializer.deserialize on each request body of the model.
Deserialized == [d \in BookingBodies |-> BookingSerializer_deserialize(d)]

\* deserialize returned, and returned no error.
Validated(data) ==
    /\ ~Deserialized[data].raised
    /\ DOMAIN Deserialized[data].errors = {}

\* The request reaches db.session.commit() (every check passed).
ReachesCommit(data) ==
    /\ Validated(data)
    /\ BookingRefusal(Deserialized[data].parsed).status = 0

\* Whether the commit raises is the store's choice, and only a request that
\* commits meets it.
CommitOutcomes(data) == IF ReachesCommit(data) THEN BOOLEAN ELSE {FALSE}

\* POST /api/bookings.  fail: the store raises at commit, and the session
\* is rolled back.
create_booking(data, fail) ==
    LET d == Deserialized[data]
        p == d.parsed
    IN  IF d.raised
        THEN /\ last' = Response("create_booking", 0, 500, "Internal Server Error")
             /\ UNCHANGED store
        ELSE IF DOMAIN d.errors # {}
        THEN /\ last' = Response("create_booking", 0, 400, "errors")
             /\ UNCHANGED store
        ELSE IF BookingRefusal(p).status # 0
        THEN /\ last' = BookingResponse(p, 0, BookingRefusal(p).status, BookingRefusal(p).error)
             /\ UNCHANGED store
        ELSE IF fail
        THEN /\ last' = BookingResponse(p, 0, 500, "Internal Server Error")
             /\ UNCHANGED store
        ELSE /\ InsertBooking(p)
             /\ last' = BookingResponse(p, NextBookingId(bookings), 201, "")

\* Variant of DeleteBooking that deletes the row and leaves the seat flag.
DeleteBooking_NoRelease(b) ==
    /\ bookings' = bookings \ {b}
    /\ UNCHANGED <<movies, seats>>

\* Variant of DeleteBooking that gives up when the seat is not found.
DeleteBooking_NeedsSeat(b) ==
    IF b.seat_id \in DOMAIN seats
    THEN /\ seats' = [seats EXCEPT ![b.seat_id] = FALSE]
         /\ bookings' = bookings \ {b}
         /\ UNCHANGED movies
    ELSE UNCHANGED store

\* Variant of DeleteBooking that releases every seat.
DeleteBooking_ReleaseAll(b) ==
    /\ seats' = [s \in DOMAIN seats |-> FALSE]
    /\ bookings' = bookings \ {b}
    /\ UNCHANGED movies

\* Variant of DeleteBooking that releases the seat and keeps the row.
DeleteBooking_KeepRow(b) ==
    /\ seats' = IF b.seat_id \in DOMAIN seats
                THEN [seats EXCEPT ![b.seat_id] = FALSE] ELSE seats
    /\ UNCHANGED <<movies, bookings>>

\* The commit of cancel_booking: the seat released when it was found, and
\* the row deleted, in one transaction.
DeleteBooking(b) ==
    /\ seats' = IF b.seat_id \in DOMAIN seats
                THEN [seats EXCEPT ![b.seat_id] = FALSE] ELSE seats
    /\ bookings' = bookings \ {b}
    /\ UNCHANGED movies

\* Variant of cancel_booking that answers 200 when the booking is not there.
cancel_booking_Idempotent(booking_id) ==
    IF booking_id \notin BookingIdsOf(bookings)
    THEN /\ last' = Response("cancel_booking", booking_id, 200, "")
         /\ UNCHANGED store
    ELSE /\ DeleteBooking(CHOOSE b \in bookings : b.id = booking_id)
         /\ last' = Response("cancel_booking", booking_id, 200, "")

\* DELETE /api/bookings/<id>
cancel_booking(booking_id) ==
    IF booking_id \notin BookingIdsOf(bookings)
    THEN /\ last' = NotFound("cancel_booking", booking_id)
         /\ UNCHANGED store
    ELSE /\ DeleteBooking(CHOOSE b \in bookings : b.id = booking_id)
         /\ last' = Response("cancel_booking", booking_id, 200, "")

Next ==
    \/ \E m \in PathMovieIds : delete_movie(m) /\ UNCHANGED <<workers, validation>>
    \/ \E s \in PathSeatIds : book_seat(s) /\ UNCHANGED <<workers, validation>>
    \/ \E s \in PathSeatIds : release_seat(s) /\ UNCHANGED <<workers, validation>>
    \/ \E d \in BookingBodies : \E fail \in CommitOutcomes(d) :
          create_booking(d, fail) /\ UNCHANGED <<workers, validation>>
    \/ \E b \in PathBookingIds : cancel_booking(b) /\ UNCHANGED <<workers, validation>>

Spec == Init /\ [][Next]_vars

(***************************************************************************)
(* The other handlers: the reads, the movie writes and the booking form.   *)
(***************************************************************************)
RECURSIVE Ascending(_)
Ascending(S) == IF S = {} THEN <<>>
                ELSE LET x == CHOOSE y \in S : \A z \in S : y <= z
                     IN  <<x>> \o Ascending(S \ {x})

RECURSIVE Descending(_)
Descending(S) == IF S = {} THEN <<>>
                 ELSE LET x == CHOOSE y \in S : \A z \in S : z <= y
                      IN  <<x>> \o Descending(S \ {x})

\* A 200 answer that holds rows.
Rows(op, id, rows) == [Response(op, id, 200, "") EXCEPT !.rows = rows]

\* GET /api/movies: the table in rowid order.
get_movies ==
    /\ last' = Rows("get_movies", 0, Ascending(DOMAIN movies))
    /\ UNCHANGED store

\* GET /api/movies/<id>
get_movie(movie_id) ==
    /\ last' = IF movie_id \notin DOMAIN movies
               THEN NotFound("get_movie", movie_id)
               ELSE Rows("get_movie", movie_id, <<movie_id>>)
    /\ UNCHANGED store

\* MovieSerializer.deserialize on each movie body of the model.
MovieDeserialized == [d \in MovieBodies |-> MovieSerializer_deserialize(d)]

\* Variant of create_movie that adds the row before it looks at the errors.
create_movie_InsertFirst(data, now) ==
    LET d == MovieDeserialized[data]
    IN  IF d.raised
        THEN /\ last' = Response("create_movie", 0, 500, "Internal Server Error")
             /\ UNCHANGED store
        ELSE /\ NextMovieId(movies) <= MaxMovieId
             /\ movies' = [m \in DOMAIN movies \cup {NextMovieId(movies)} |->
                              IF m \in DOMAIN movies THEN movies[m] ELSE MovieRow(d.parsed, now)]
             /\ last' = IF DOMAIN d.errors # {}
                        THEN Response("create_movie", 0, 400, "errors")
                        ELSE Response("create_movie", NextMovieId(movies), 201, "")
             /\ UNCHANGED <<seats, bookings>>

\* POST /api/movies.  now: the clock reading that becomes created_at.
create_movie(data, now) ==
    LET d == MovieDeserialized[data]
    IN  IF d.raised
        THEN /\ last' = Response("create_movie", 0, 500, "Internal Server Error")
             /\ UNCHANGED store
        ELSE IF DOMAIN d.errors # {}
        THEN /\ last' = Response("create_movie", 0, 400, "errors")
             /\ UNCHANGED store
        ELSE /\ NextMovieId(movies) <= MaxMovieId
             /\ movies' = [m \in DOMAIN movies \cup {NextMovieId(movies)} |->
                              IF m \in DOMAIN movies THEN movies[m] ELSE MovieRow(d.parsed, now)]
             /\ last' = Response("create_movie", NextMovieId(movies), 201, "")
             /\ UNCHANGED <<seats, bookings>>

\* strptime(data['release_date'], '%Y-%m-%d') raises on a number and on a
\* text that is no date.
UpdateDateRaises(v) ==
    Truthy(v) /\ (v.k = "int" \/ ~ParsesDate(v.s))

\* The attributes update_movie assigns: each field that is in the body.
\* The values the model draws for a text column are texts or null and for
\* duration numbers or null, which the store keeps as given.
Updated(row, data) ==
    [title |-> IF Present(data.title) THEN data.title ELSE row.title,
     description |-> IF Present(data.description) THEN data.description ELSE row.description,
     release_date |-> IF Present(data.release_date)
                      THEN IF Truthy(data.release_date)
                           THEN DateOf(data.release_date.s) ELSE Null
                      ELSE row.release_date,
     duration |-> IF Present(data.duration) THEN data.duration ELSE row.duration,
     poster |-> IF Present(data.poster) THEN data.poster ELSE row.poster,
     created_at |-> row.created_at]

\* Variant of update_movie that replaces the row: an absent field is reset.
update_movie_Replace(movie_id, data) ==
    IF movie_id \notin DOMAIN movies
    THEN /\ last' = NotFound("update_movie", movie_id)
         /\ UNCHANGED store
    ELSE IF UpdateDateRaises(data.release_date) \/ data.title = Null
    THEN /\ last' = Response("update_movie", movie_id, 500, "Internal Server Error")
         /\ UNCHANGED store
    ELSE /\ movies' = [movies EXCEPT ![movie_id] =
                          Updated(MovieRow(MovieSerializer_deserialize(EmptyMovieBody).parsed,
                                           movies[movie_id].created_at), data)]
         /\ last' = Rows("update_movie", movie_id, <<movie_id>>)
         /\ UNCHANGED <<seats, bookings>>

\* PUT /api/movies/<id>.  A release_date that does not parse raises before
\* the commit, and a null title is refused by the NOT NULL column at the
\* commit: the request answers 500 and the session is discarded.
update_movie(movie_id, data) ==
    IF movie_id \notin DOMAIN movies
    THEN /\ last' = NotFound("update_movie", movie_id)
         /\ UNCHANGED store
    ELSE IF UpdateDateRaises(data.release_date) \/ data.title = Null
    THEN /\ last' = Response("update_movie", movie_id, 500, "Internal Server Error")
         /\ UNCHANGED store
    ELSE /\ movies' = [movies EXCEPT ![movie_id] = Updated(movies[movie_id], data)]
         /\ last' = Rows("update_movie", movie_id, <<movie_id>>)
         /\ UNCHANGED <<seats, bookings>>

\* GET /api/seats: ordered by seat_number, the order of the ids.
get_seats ==
    /\ last' = Rows("get_seats", 0, Ascending(DOMAIN seats))
    /\ UNCHANGED store

\* Variant of get_available_seats without the is_booked filter.
get_available_seats_All ==
    /\ last' = Rows("get_available_seats", 0, Ascending(DOMAIN seats))
    /\ UNCHANGED store

\* GET /api/seats/available
get_available_seats ==
    /\ last' = Rows("get_available_seats", 0, Ascending({s \in DOMAIN seats : ~seats[s]}))
    /\ UNCHANGED store

\* Variant of get_seat that releases the seat it reads.
get_seat_Releasing(seat_id) ==
    IF seat_id \notin DOMAIN seats
    THEN /\ last' = NotFound("get_seat", seat_id)
         /\ UNCHANGED store
    ELSE /\ last' = Rows("get_seat", seat_id, <<seat_id>>)
         /\ seats' = [seats EXCEPT ![seat_id] = FALSE]
         /\ UNCHANGED <<movies, bookings>>

\* GET /api/seats/<id>
get_seat(seat_id) ==
    /\ last' = IF seat_id \notin DOMAIN seats
               THEN NotFound("get_seat", seat_id)
               ELSE Rows("get_seat", seat_id, <<seat_id>>)
    /\ UNCHANGED store

\* GET /api/bookings: newest first.  A new booking takes an id above every
\* live one, so the newest live booking has the largest id.
get_bookings ==
    /\ last' = Rows("get_bookings", 0, Descending(BookingIdsOf(bookings)))
    /\ UNCHANGED store

\* GET /api/bookings/<id>
get_booking(booking_id) ==
    /\ last' = IF booking_id \notin BookingIdsOf(bookings)
               THEN NotFound("get_booking", booking_id)
               ELSE Rows("get_booking", booking_id, <<booking_id>>)
    /\ UNCHANGED store

\* GET /api/bookings/user/<user_name>
get_user_bookings(user_name) ==
    /\ last' = Rows("get_user_bookings", 0,
                    Descending(BookingIdsOf({b \in bookings : b.user_name = user_name})))
    /\ UNCHANGED store

\* Seat.query.get on the text of a form field: the key the text denotes.
FormKey(v) == IF IntParses(v) THEN IntOf(v) ELSE NoneId

\* The form route answers with a redirect; url_for('seat_booking') raises
\* when movie_id is no integer text.
FormResponse(form, id, status) ==
    [op |-> "create_booking_form", id |-> id,
     movie_id |-> FormKey(form.movie_id), seat_id |-> FormKey(form.seat_id),
     status |-> status, error |-> "", rows |-> <<>>]

FormRefused(form) ==
    FormResponse(form, 0, IF IntParses(form.movie_id) THEN 302 ELSE 500)

\* Variant of create_booking_form without the is_booked check.
create_booking_form_NoSeatCheck(form) ==
    IF ~Truthy(form.movie_id) \/ ~Truthy(form.seat_id) \/ ~Truthy(form.user_name)
    THEN /\ last' = FormRefused(form)
         /\ UNCHANGED store
    ELSE IF FormKey(form.seat_id) \notin DOMAIN seats
    THEN /\ last' = FormRefused(form)
         /\ UNCHANGED store
    ELSE IF ~IntParses(form.movie_id) \/ (Truthy(form.showtime) /\ ~ParsesT(form.showtime.s))
    THEN /\ last' = FormResponse(form, 0, 500)
         /\ UNCHANGED store
    ELSE /\ InsertBooking([movie_id |-> IntOf(form.movie_id),
                           seat_id |-> IntOf(form.seat_id),
                           user_name |-> form.user_name.s,
                           user_email |-> IF Truthy(form.user_email)
                                          THEN form.user_email.s ELSE <<>>,
                           showtime |-> IF Truthy(form.showtime)
                                        THEN TimeOf(form.showtime.s) ELSE NoneTime])
         /\ last' = FormResponse(form, NextBookingId(bookings), 302)

\* POST /bookings/create: the three fields must be given and the seat must
\* exist and be free; the movie is not looked up.  int(movie_id) and
\* strptime(showtime) raise on an ill-formed text.
create_booking_form(form) ==
    IF ~Truthy(form.movie_id) \/ ~Truthy(form.seat_id) \/ ~Truthy(form.user_name)
    THEN /\ last' = FormRefused(form)
         /\ UNCHANGED store
    ELSE IF FormKey(form.seat_id) \notin DOMAIN seats
    THEN /\ last' = FormRefused(form)
         /\ UNCHANGED store
    ELSE IF seats[FormKey(form.seat_id)]
    THEN /\ last' = FormRefused(form)
         /\ UNCHANGED store
    ELSE IF ~IntParses(form.movie_id) \/ (Truthy(form.showtime) /\ ~ParsesT(form.showtime.s))
    THEN /\ last' = FormResponse(form, 0, 500)
         /\ UNCHANGED store
    ELSE /\ InsertBooking([movie_id |-> IntOf(form.movie_id),
                           seat_id |-> IntOf(form.seat_id),
                           user_name |-> form.user_name.s,
                           user_email |-> IF Truthy(form.user_email)
                                          THEN form.user_email.s ELSE <<>>,
                           showtime |-> IF Truthy(form.showtime)
                                        THEN TimeOf(form.showtime.s) ELSE NoneTime])
         /\ last' = FormResponse(form, NextBookingId(bookings), 302)

\* The booking requests of Next with well-formed bodies and a store that
\* does not fail.
NextBookings ==
    \/ \E m \in PathMovieIds : delete_movie(m) /\ UNCHANGED <<workers, validation>>
    \/ \E s \in PathSeatIds : book_seat(s) /\ UNCHANGED <<workers, validation>>
    \/ \E s \in PathSeatIds : release_seat(s) /\ UNCHANGED <<workers, validation>>
    \/ \E d \in WellFormedBodies :
          create_booking(d, FALSE) /\ UNCHANGED <<workers, validation>>
    \/ \E b \in PathBookingIds : cancel_booking(b) /\ UNCHANGED <<workers, validation>>

NextReads ==
    \/ get_movies /\ UNCHANGED <<workers, validation>>
    \/ \E m \in PathMovieIds : get_movie(m) /\ UNCHANGED <<workers, validation>>
    \/ get_seats /\ UNCHANGED <<workers, validation>>
    \/ get_available_seats /\ UNCHANGED <<workers, validation>>
    \/ \E s \in PathSeatIds : get_seat(s) /\ UNCHANGED <<workers, validation>>
    \/ get_bookings /\ UNCHANGED <<workers, validation>>
    \/ \E b \in PathBookingIds : get_booking(b) /\ UNCHANGED <<workers, validation>>
    \/ \E u \in PathNames : get_user_bookings(u) /\ UNCHANGED <<workers, validation>>

\* Update bodies that leave the row as it is: no field, or a release_date
\* that is no date.
IdleUpdates == {EmptyMovieBody, [EmptyMovieBody EXCEPT !.release_date = StrV(<<"x">>)]}

\* The API with the bookings' whole lifecycle: the booking requests, the
\* reads, and movie updates that change no field.
NextApi ==
    \/ NextBookings
    \/ NextReads
    \/ \E m \in PathMovieIds, d \in IdleUpdates :
          update_movie(m, d) /\ UNCHANGED <<workers, validation>>

SpecApi == Init /\ [][NextApi]_vars

(***************************************************************************)
(* Handlers as concurrent requests.  Each worker serves one request; a     *)
(* step is one access to the store: a query, or the commit, which applies  *)
(* the session's pending changes in one transaction.                       *)
(***************************************************************************)
Answer(p, r) ==
    /\ reply' = [reply EXCEPT ![p] = r]
    /\ pc' = [pc EXCEPT ![p] = "done"]

Goto(p, label) ==
    /\ pc' = [pc EXCEPT ![p] = label]
    /\ UNCHANGED reply

\* create_booking up to Movie.query.get: validation and the movie lookup.
cb_begin(p, data) ==
    /\ pc[p] = "idle"
    /\ UNCHANGED <<store, last>>
    /\ LET d == Deserialized[data]
       IN  IF d.raised
           THEN Answer(p, Response("create_booking", 0, 500, "Internal Server Error"))
                /\ UNCHANGED req
           ELSE IF DOMAIN d.errors # {}
           THEN Answer(p, Response("create_booking", 0, 400, "errors"))
                /\ UNCHANGED req
           ELSE IF d.parsed.movie_id \notin DOMAIN movies
           THEN Answer(p, BookingResponse(d.parsed, 0, 404, "Movie not found"))
                /\ UNCHANGED req
           ELSE /\ req' = [req EXCEPT ![p] =
                              [NoRequest EXCEPT !.movie_id = d.parsed.movie_id,
                                                !.seat_id = d.parsed.seat_id,
                                                !.user_name = d.parsed.user_name,
                                                !.user_email = d.parsed.user_email,
                                                !.showtime = d.parsed.showtime]]
                /\ Goto(p, "cb_seat")

\* Variant of cb_seat that refuses when any seat is booked.
cb_seat_AnyBooked(p) ==
    /\ pc[p] = "cb_seat"
    /\ UNCHANGED <<store, last, req>>
    /\ IF req[p].seat_id \notin DOMAIN seats
       THEN Answer(p, BookingResponse(req[p], 0, 404, "Seat not found"))
       ELSE IF \E s \in DOMAIN seats : seats[s]
       THEN Answer(p, BookingResponse(req[p], 0, 400, "Seat is already booked"))
       ELSE Goto(p, "cb_commit")

\* create_booking: Seat.query.get and the is_booked check.
cb_seat(p) ==
    /\ pc[p] = "cb_seat"
    /\ UNCHANGED <<store, last, req>>
    /\ IF req[p].seat_id \notin DOMAIN seats
       THEN Answer(p, BookingResponse(req[p], 0, 404, "Seat not found"))
       ELSE IF seats[req[p].seat_id]
       THEN Answer(p, BookingResponse(req[p], 0, 400, "Seat is already booked"))
       ELSE Goto(p, "cb_commit")

\* Variant of cb_commit whose failed commit keeps the seat flag it set.
cb_commit_HalfApplied(p, fail) ==
    /\ pc[p] = "cb_commit"
    /\ UNCHANGED <<last, req>>
    /\ IF fail
       THEN /\ seats' = [seats EXCEPT ![req[p].seat_id] = TRUE]
            /\ UNCHANGED <<movies, bookings>>
            /\ Answer(p, BookingResponse(req[p], 0, 500, "Internal Server Error"))
       ELSE /\ InsertBooking(req[p])
            /\ Answer(p, BookingResponse(req[p], NextBookingId(bookings), 201, ""))

\* create_booking: the seat marked, the booking added, and the commit.
cb_commit(p, fail) ==
    /\ pc[p] = "cb_commit"
    /\ UNCHANGED <<last, req>>
    /\ IF fail
       THEN /\ UNCHANGED store
            /\ Answer(p, BookingResponse(req[p], 0, 500, "Internal Server Error"))
       ELSE /\ InsertBooking(req[p])
            /\ Answer(p, BookingResponse(req[p], NextBookingId(bookings), 201, ""))

\* cancel_booking up to the seat lookup: the booking and its seat loaded.
cn_begin(p, booking_id) ==
    /\ pc[p] = "idle"
    /\ UNCHANGED <<store, last>>
    /\ IF booking_id \notin BookingIdsOf(bookings)
       THEN Answer(p, NotFound("cancel_booking", booking_id))
            /\ UNCHANGED req
       ELSE LET b == CHOOSE x \in bookings : x.id = booking_id
            IN  /\ req' = [req EXCEPT ![p] =
                              [NoRequest EXCEPT !.booking_id = booking_id,
                                                !.seat_id = b.seat_id,
                                                !.found = b.seat_id \in DOMAIN seats,
                                                !.seen = b.seat_id \in DOMAIN seats
                                                         /\ seats[b.seat_id]]]
                /\ Goto(p, "cn_commit")

\* cancel_booking: the commit.  The seat row is updated when the flag the
\* session loaded was true; the booking row is deleted by primary key.
cn_commit(p) ==
    /\ pc[p] = "cn_commit"
    /\ UNCHANGED <<movies, last, req>>
    /\ seats' = IF req[p].found /\ req[p].seen
                THEN [seats EXCEPT ![req[p].seat_id] = FALSE] ELSE seats
    /\ bookings' = {b \in bookings : b.id # req[p].booking_id}
    /\ Answer(p, Response("cancel_booking", req[p].booking_id, 200, ""))

NextConc ==
    \/ \E p \in Procs, d \in BookingBodies : cb_begin(p, d) /\ UNCHANGED validation
    \/ \E p \in Procs : cb_seat(p) /\ UNCHANGED validation
    \/ \E p \in Procs, fail \in BOOLEAN : cb_commit(p, fail) /\ UNCHANGED validation
    \/ \E p \in Procs, b \in PathBookingIds : cn_begin(p, b) /\ UNCHANGED validation
    \/ \E p \in Procs : cn_commit(p) /\ UNCHANGED validation

SpecConc == Init /\ [][NextConc]_vars

\* delete_movie: Movie.query.get_or_404.
dm_begin(p, movie_id) ==
    /\ pc[p] = "idle"
    /\ UNCHANGED <<store, last>>
    /\ IF movie_id \notin DOMAIN movies
       THEN Answer(p, NotFound("delete_movie", movie_id))
            /\ UNCHANGED req
       ELSE /\ req' = [req EXCEPT ![p] = [NoRequest EXCEPT !.movie_id = movie_id]]
            /\ Goto(p, "dm_load")

\* delete_movie: session.delete(movie) loads movie.bookings, the rows the
\* delete cascades to.
dm_load(p) ==
    /\ pc[p] = "dm_load"
    /\ UNCHANGED <<store, last>>
    /\ req' = [req EXCEPT ![p].loaded = BookingIdsOf(LiveOfMovie(bookings, req[p].movie_id))]
    /\ Goto(p, "dm_commit")

\* delete_movie: the commit.  The loaded bookings and the movie are deleted
\* by primary key; no seat is touched.
dm_commit(p) ==
    /\ pc[p] = "dm_commit"
    /\ UNCHANGED <<seats, last, req>>
    /\ bookings' = {b \in bookings : b.id \notin req[p].loaded}
    /\ movies' = [m \in DOMAIN movies \ {req[p].movie_id} |-> movies[m]]
    /\ Answer(p, Response("delete_movie", req[p].movie_id, 200, ""))

\* The booking requests and movie deletions, interleaved.
NextRace ==
    \/ NextConc
    \/ \E p \in Procs, m \in PathMovieIds : dm_begin(p, m) /\ UNCHANGED validation
    \/ \E p \in Procs : dm_load(p) /\ UNCHANGED validation
    \/ \E p \in Procs : dm_commit(p) /\ UNCHANGED validation

SpecRace == Init /\ [][NextRace]_vars

\* Bodies of the movie writes next to bookings: the title-only body, which
\* creates or retitles a movie, and the empty body.
ApiMovieBodies == {TitleOnly, EmptyMovieBody}

\* The reads and the movie writes, between bookings being made.
NextCatalog ==
    \/ \E d \in WellFormedBodies :
          create_booking(d, FALSE) /\ UNCHANGED <<workers, validation>>
    \/ NextReads
    \/ \E d \in ApiMovieBodies, now \in Times :
          create_movie(d, now) /\ UNCHANGED <<workers, validation>>
    \/ \E m \in PathMovieIds, d \in ApiMovieBodies :
          update_movie(m, d) /\ UNCHANGED <<workers, validation>>

SpecCatalog == Init /\ [][NextCatalog]_vars

\* The booking requests and the booking form.
NextForm ==
    \/ NextBookings
    \/ \E f \in FormBodies : create_booking_form(f) /\ UNCHANGED <<workers, validation>>

SpecForm == Init /\ [][NextForm]_vars

\* Forms for the sample movie: one for each seat, one for a seat id that no
\* seat has, and one without a seat.
SeatForms ==
    {Body(StrV(<<"1">>), s, GoodName, Missing, Missing) :
        s \in FormIdValues(SeatIds) \cup {StrV(<<"0">>), Missing}}

\* Every request that writes is_booked: the booking requests and the form.
NextSeats ==
    \/ NextBookings
    \/ \E f \in SeatForms : create_booking_form(f) /\ UNCHANGED <<workers, validation>>

SpecSeats == Init /\ [][NextSeats]_vars

\* A client that sends DELETE /api/bookings/<id> twice in a row.  It keeps
\* the id in req and the first answer in reply; the second answer is in last.
cancel_first(p, booking_id) ==
    /\ pc[p] = "idle"
    /\ cancel_booking(booking_id)
    /\ req' = [req EXCEPT ![p] = [NoRequest EXCEPT !.booking_id = booking_id]]
    /\ reply' = [reply EXCEPT ![p] = last']
    /\ pc' = [pc EXCEPT ![p] = "again"]

cancel_again(p) ==
    /\ pc[p] = "again"
    /\ cancel_booking(req[p].booking_id)
    /\ pc' = [pc EXCEPT ![p] = "done"]
    /\ UNCHANGED <<req, reply>>

\* The client of the model is the first process.
Client == CHOOSE p \in Procs : \A q \in Procs : p <= q

\* Bookings and seat requests, and the client that cancels twice; nothing
\* runs between the client's two requests.
NextTwice ==
    \/ \E d \in WellFormedBodies :
          /\ pc[Client] # "again"
          /\ create_booking(d, FALSE) /\ UNCHANGED <<workers, validation>>
    \/ \E s \in PathSeatIds :
          /\ pc[Client] # "again"
          /\ book_seat(s) /\ UNCHANGED <<workers, validation>>
    \/ \E b \in PathBookingIds : cancel_first(Client, b) /\ UNCHANGED validation
    \/ cancel_again(Client) /\ UNCHANGED validation

SpecTwice == Init /\ [][NextTwice]_vars

\* The form next to the seat requests and cancellations: every form of
\* FormBodies, and one whose seat id no seat has.
NoSeatForm == Body(StrV(<<"1">>), StrV(<<"0">>), GoodName, Missing, Missing)

NextFormSeats ==
    \/ \E s \in PathSeatIds : book_seat(s) /\ UNCHANGED <<workers, validation>>
    \/ \E s \in PathSeatIds : release_seat(s) /\ UNCHANGED <<workers, validation>>
    \/ \E b \in PathBookingIds : cancel_booking(b) /\ UNCHANGED <<workers, validation>>
    \/ \E f \in FormBodies \cup {NoSeatForm} :
          create_booking_form(f) /\ UNCHANGED <<workers, validation>>

SpecFormSeats == Init /\ [][NextFormSeats]_vars

\* Cancellations on a database that is already there.  The application
\* opens the database file it is configured with and seeds it only when it
\* holds no movie; the rows it starts on are not its own doing, and nothing
\* in the store ties a booking's seat_id to a seat row.  The stored seats are
\* any part of the seat grid with any flags, the stored bookings any rows
\* with distinct ids that reference a movie and a seat of the grid.
StoredSeats == UNION {[S -> BOOLEAN] : S \in SUBSET SeatIds}

StoredRefs ==
    {[movie_id |-> m, seat_id |-> s, user_name |-> GoodName.s, user_email |-> <<>>,
      showtime |-> NoneTime] : m \in MovieIds, s \in SeatIds}

StoredBookings ==
    UNION {{{BookingRow(i, f[i]) : i \in I} : f \in [I -> StoredRefs]} :
              I \in SUBSET (1..MaxBookingId)}

InitStored ==
    /\ movies = [m \in MovieIds |-> SampleMovie]
    /\ seats \in StoredSeats
    /\ bookings \in StoredBookings
    /\ InitWorkers /\ InitValidation /\ last = NoResponse

NextStored ==
    \E b \in PathBookingIds : cancel_booking(b) /\ UNCHANGED <<workers, validation>>

SpecStored == InitStored /\ [][NextStored]_vars

\* The body of the request is kept in input.
Received(kind, d) ==
    /\ input' = [kind |-> kind, data |-> d]
    /\ UNCHANGED <<workers, output>>

\* Movie updates, with the body of the request just answered kept in input.
NextMovies ==
    \E m \in PathMovieIds, d \in UpdateBodies : update_movie(m, d) /\ Received("update", d)

SpecMovies == Init /\ [][NextMovies]_vars

\* The two create requests, with the body of the request just answered kept
\* in input.
NextCreate ==
    \/ \E d \in MovieBodies, now \in Times : create_movie(d, now) /\ Received("movie", d)
    \/ \E d \in BookingBodies : \E fail \in CommitOutcomes(d) :
          create_booking(d, fail) /\ Received("booking", d)

SpecCreate == Init /\ [][NextCreate]_vars

(***************************************************************************)
(* The serializers on their own.  A mapping is handed to deserialize, and  *)
(* deserialize returns its pair or raises.                                 *)
(***************************************************************************)
\* Booking mappings: every combination of these values of the five fields.
BookingInputs ==
    {Body(m, s, u, e, t) :
        m \in {Missing, Null, StrV(<<>>), IntV(0), IntV(1), StrV(<<"x">>)},
        s \in {Missing, Null, StrV(<<>>), IntV(0), IntV(1), StrV(<<"x">>)},
        u \in {Missing, Null, StrV(<<>>), StrV(<<" ">>), GoodName, IntV(7)},
        e \in {Missing, StrV(<<"a">>), StrV(<<"a", "@">>), IntV(7)},
        t \in {Missing, StrV(<<"D", "T", "H">>), StrV(<<"D">>), IntV(7)}}

SerializerInputs ==
    {[kind |-> "booking", data |-> d] : d \in BookingInputs}
    \cup {[kind |-> "movie", data |-> d] : d \in MovieBodies}

InitSerializers ==
    /\ InitStore /\ InitWorkers /\ last = NoResponse
    /\ input \in SerializerInputs
    /\ output = NoOutput

Returned(kind, r) ==
    [kind |-> kind, raised |-> r.raised, parsed |-> r.parsed, errors |-> r.errors]

BookingSerializer_call ==
    /\ input.kind = "booking" /\ output = NoOutput
    /\ output' = Returned("booking", BookingSerializer_deserialize(input.data))
    /\ UNCHANGED <<store, workers, last, input>>

MovieSerializer_call ==
    /\ input.kind = "movie" /\ output = NoOutput
    /\ output' = Returned("movie", MovieSerializer_deserialize(input.data))
    /\ UNCHANGED <<store, workers, last, input>>

NextSerializers ==
    \/ BookingSerializer_call
    \/ MovieSerializer_call

SpecSerializers == InitSerializers /\ [][NextSerializers]_vars

(***************************************************************************)
(* Properties.                                                             *)
(***************************************************************************)
\* The step just taken is a request of handler op.
Ran(op) == last'.op = op

\* The row of the booking with this id.
RowOf(bs, id) == CHOOSE b \in bs : b.id = id

\* Core invariant: a seat is flagged booked iff a live booking references it.
CoreInvariant == \A s \in DOMAIN seats : seats[s] <=> LiveOnSeat(bookings, s) # {}

\* No seat is referenced by two live bookings.
AtMostOneLivePerSeat == \A b1, b2 \in bookings : b1.seat_id = b2.seat_id => b1 = b2

C2_AtMostOneLiveBookingPerSeat == AtMostOneLivePerSeat

\* C4: after a successful delete_movie(M) no live booking references M and
\* every seat a live booking of M referenced just before is free.
C4_DeleteMovieReleasesSeats ==
    [][(Ran("delete_movie") /\ last'.status = 200)
       => /\ LiveOfMovie(bookings', last'.id) = {}
          /\ \A b \in LiveOfMovie(bookings, last'.id) :
                b.seat_id \in DOMAIN seats' => ~seats'[b.seat_id]]_vars

\* C5: a successful cancel_booking deletes the booking and leaves its seat
\* free; cancelling the booking the previous request created succeeds and
\* leaves the seat it booked free.
C5_CancelReleases ==
    [][/\ (Ran("cancel_booking") /\ last'.status = 200)
          => /\ last'.id \in BookingIdsOf(bookings)
             /\ last'.id \notin BookingIdsOf(bookings')
             /\ ~seats'[RowOf(bookings, last'.id).seat_id]
       /\ (/\ last.op = "create_booking" /\ last.status = 201
           /\ Ran("cancel_booking") /\ last'.id = last.id)
          => /\ last'.status = 200
             /\ seats[RowOf(bookings, last.id).seat_id]
             /\ ~seats'[RowOf(bookings, last.id).seat_id]
             /\ last.id \notin BookingIdsOf(bookings')]_vars

\* C5 witness: a booking has just been cancelled and every seat is free.
C5_Witness ==
    /\ last.op = "cancel_booking" /\ last.status = 200
    /\ bookings = {}
    /\ \A s \in DOMAIN seats : ~seats[s]

\* C6: book_seat on a booked seat answers 400 with an error and changes
\* nothing; on a free seat it answers 200 and sets the flag of that seat
\* alone; book_seat right after a successful book_seat of the same seat
\* answers 400.
C6_BookSeat ==
    [][/\ (Ran("book_seat") /\ last'.id \in DOMAIN seats /\ seats[last'.id])
          => /\ last'.status = 400 /\ last'.error # ""
             /\ UNCHANGED store
       /\ (Ran("book_seat") /\ last'.id \in DOMAIN seats /\ ~seats[last'.id])
          => /\ last'.status = 200
             /\ seats'[last'.id]
       /\ (/\ last.op = "book_seat" /\ last.status = 200
           /\ Ran("book_seat") /\ last'.id = last.id)
          => /\ last'.status = 400
             /\ UNCHANGED store]_vars

\* C6 witness: book_seat was refused on a booked seat.
C6_Witness ==
    /\ last.op = "book_seat" /\ last.status = 400
    /\ seats[last.id]

\* C7: release_seat on an existing seat answers 200 and leaves the seat
\* free whatever its flag was; on a free seat it changes nothing.
C7_ReleaseSeat ==
    [][(Ran("release_seat") /\ last'.id \in DOMAIN seats)
       => /\ last'.status = 200
          /\ ~seats'[last'.id]
          /\ (~seats[last'.id] => UNCHANGED store)]_vars

\* C7 witness: release_seat answered 200 on a seat that a live booking
\* references, and the seat is free.
C7_Witness ==
    /\ last.op = "release_seat" /\ last.status = 200
    /\ ~seats[last.id]
    /\ LiveOnSeat(bookings, last.id) # {}

\* The step just taken is a create_booking request whose body passed
\* validation; last' holds the ids parsed from it.
RanValidBooking ==
    /\ Ran("create_booking")
    /\ last'.movie_id # NoneId /\ last'.seat_id # NoneId

\* C8: create_booking with a valid body, an existing movie and an existing
\* booked seat answers 400 "Seat is already booked" and changes nothing.
C8_BookedSeatRefused ==
    [][(/\ RanValidBooking
        /\ last'.movie_id \in DOMAIN movies
        /\ last'.seat_id \in DOMAIN seats
        /\ seats[last'.seat_id])
       => /\ last'.status = 400
          /\ last'.error = "Seat is already booked"
          /\ UNCHANGED store]_vars

\* C8 witness: create_booking was refused because the seat is booked.
C8_Witness ==
    /\ last.op = "create_booking" /\ last.status = 400
    /\ last.error = "Seat is already booked"
    /\ last.movie_id \in DOMAIN movies /\ seats[last.seat_id]

\* The step just taken is a create_booking request with a valid body whose
\* movie_id or seat_id resolves to no row.
RanUnresolved ==
    /\ RanValidBooking
    /\ (last'.movie_id \notin DOMAIN movies \/ last'.seat_id \notin DOMAIN seats)

\* C10 (as stated): create_booking with a valid body whose movie or seat
\* does not exist answers 400 and changes nothing.
C10_UnresolvedAnswers400 ==
    [][RanUnresolved => (last'.status = 400 /\ UNCHANGED store)]_vars

\* C10 (amended): create_booking with a valid body whose movie or seat does
\* not exist answers 404, "Movie not found" when the movie is missing and
\* "Seat not found" otherwise, and changes nothing.
C10_UnresolvedAnswers404 ==
    [][RanUnresolved
       => /\ last'.status = 404
          /\ last'.error = IF last'.movie_id \notin DOMAIN movies
                           THEN "Movie not found" ELSE "Seat not found"
          /\ UNCHANGED store]_vars

\* C10 witness: create_booking answered that the movie does not exist while
\* a seat is free.
C10_Witness ==
    /\ last.op = "create_booking" /\ last.status = 404
    /\ last.error = "Movie not found"
    /\ last.movie_id \notin DOMAIN movies
    /\ last.seat_id \in DOMAIN seats /\ ~seats[last.seat_id]

\* Workers p and q have both finished a create_booking request with a valid
\* body for the same existing seat and an existing movie, neither met a
\* store failure, and no other worker has run.  Every seat is free at the
\* start, so the seat was free when the two requests began.
BothBooked(p, q) ==
    /\ p # q
    /\ pc[p] = "done" /\ pc[q] = "done"
    /\ \A r \in Procs \ {p, q} : pc[r] = "idle"
    /\ reply[p].op = "create_booking" /\ reply[q].op = "create_booking"
    /\ reply[p].movie_id \in DOMAIN movies /\ reply[q].movie_id \in DOMAIN movies
    /\ reply[p].seat_id \in DOMAIN seats /\ reply[q].seat_id = reply[p].seat_id
    /\ reply[p].status # 500 /\ reply[q].status # 500

\* C3: of two create_booking requests for the same free seat, run with
\* their store accesses interleaved in any order, exactly one answers 201
\* and the other answers 400 "Seat is already booked"; the seat never ends
\* with two bookings.
C3_OneSuccessOneRefusal ==
    \A p, q \in Procs :
        BothBooked(p, q)
        => /\ \/ reply[p].status = 201 /\ reply[q].status = 400
                 /\ reply[q].error = "Seat is already booked"
              \/ reply[q].status = 201 /\ reply[p].status = 400
                 /\ reply[p].error = "Seat is already booked"
           /\ Cardinality(LiveOnSeat(bookings, reply[p].seat_id)) = 1

\* Worker p takes a step of create_booking.
CreateStep(p) ==
    /\ pc'[p] # pc[p]
    /\ \/ pc[p] \in {"cb_seat", "cb_commit"}
       \/ pc'[p] = "cb_seat"
       \/ pc'[p] = "done" /\ reply'[p].op = "create_booking"

\* The step adds exactly the booking row that worker p answers with, for the
\* movie and seat of its request, and sets the flag of that seat and nothing
\* else.
AddsBookingOf(p) ==
    /\ \E b \in bookings' :
          /\ b \notin bookings
          /\ bookings' = bookings \cup {b}
          /\ b.id = reply'[p].id
          /\ b.movie_id = req[p].movie_id
          /\ b.seat_id = req[p].seat_id
    /\ seats' = [seats EXCEPT ![req[p].seat_id] = TRUE]
    /\ movies' = movies

\* C9: every step of a create_booking request either leaves the store as it
\* was, or is the one step that answers 201, and that step adds the booking
\* and sets the seat flag together; a request that does not answer 201,
\* a failed commit included, changes nothing at any step.
C9_CreateBookingAtomic ==
    [][\A p \in Procs :
        CreateStep(p)
        => IF pc'[p] = "done" /\ reply'[p].status = 201
           THEN AddsBookingOf(p)
           ELSE UNCHANGED store]_vars

\* C9 witness: one request answered 201, with its booking live and its seat
\* flagged, and another met a store failure at commit on a seat that is
\* still free with no booking.
C9_Witness ==
    \E p, q \in Procs :
        /\ reply[p].op = "create_booking" /\ reply[p].status = 201
        /\ \E b \in bookings : b.id = reply[p].id /\ seats[b.seat_id]
        /\ reply[q].op = "create_booking" /\ reply[q].status = 500
        /\ reply[q].seat_id \in DOMAIN seats
        /\ ~seats[reply[q].seat_id]
        /\ LiveOnSeat(bookings, reply[q].seat_id) = {}

\* The step just taken is a request addressed by an id in its path that has
\* no row in the table the handler looks it up in.
RanUnresolvedId ==
    \/ /\ last'.op \in {"get_movie", "update_movie", "delete_movie"}
       /\ last'.id \notin DOMAIN movies
    \/ /\ last'.op \in {"get_seat", "book_seat", "release_seat"}
       /\ last'.id \notin DOMAIN seats
    \/ /\ last'.op \in {"get_booking", "cancel_booking"}
       /\ last'.id \notin BookingIdsOf(bookings)

\* C11: a request addressed by id (get, update or delete a movie; get, book
\* or release a seat; get or cancel a booking) whose id has no row answers
\* 404 and leaves movies, seats and bookings as they were.
C11_UnresolvedIdAnswers404 ==
    [][RanUnresolvedId => (last'.status = 404 /\ UNCHANGED store)]_vars

\* C11 witness: cancel_booking of an id with no row was answered 404 while
\* another booking is live on a booked seat.
C11_Witness ==
    /\ last.op = "cancel_booking" /\ last.status = 404
    /\ last.id \notin BookingIdsOf(bookings)
    /\ \E b \in bookings : b.seat_id \in DOMAIN seats /\ seats[b.seat_id]

\* No request is in flight.
Quiescent == \A p \in Procs : pc[p] \in {"idle", "done"}

\* C12: when the interleaved create_booking, cancel_booking and delete_movie
\* requests have all answered, the store is one that some serial order of
\* them leaves.  Run one after the other from the initial store such
\* requests leave no seat with two live bookings, every seat of a live
\* booking flagged, and every live booking with its movie.
C12_FinalStateOfSomeSerialOrder ==
    Quiescent
    => /\ AtMostOneLivePerSeat
       /\ \A b \in bookings : b.seat_id \in DOMAIN seats => seats[b.seat_id]
       /\ \A b \in bookings : b.movie_id \in DOMAIN movies

\* A required field that is missing from the mapping, null or empty.
MissingOrEmpty(v) == ~Present(v) \/ v = Null \/ v = StrV(<<>>)

\* C13: BookingSerializer.deserialize answers every booking mapping with an
\* error mapping that has an entry for each of movie_id, seat_id and
\* user_name that is missing or empty, whatever the other fields hold.
C13_EveryMissingFieldReported ==
    output.kind = "booking"
    => /\ ~output.raised
       /\ \A f \in {"movie_id", "seat_id", "user_name"} :
             MissingOrEmpty(input.data[f]) => f \in DOMAIN output.errors

\* C15: MovieSerializer.deserialize and BookingSerializer.deserialize return
\* their pair for every mapping of texts, numbers and nulls; neither raises.
C15_SerializersNeverRaise == ~output.raised

\* The step just taken is a create request on whose body deserialize
\* returned at least one error.
RanInvalidCreate ==
    \/ /\ Ran("create_movie") /\ input'.kind = "movie"
       /\ ~MovieDeserialized[input'.data].raised
       /\ DOMAIN MovieDeserialized[input'.data].errors # {}
    \/ /\ Ran("create_booking") /\ input'.kind = "booking"
       /\ ~Deserialized[input'.data].raised
       /\ DOMAIN Deserialized[input'.data].errors # {}

\* C14: a create_movie or create_booking request whose body fails validation
\* answers 400 and leaves movies, seats and bookings as they were.
C14_InvalidCreateChangesNothing ==
    [][RanInvalidCreate => (last'.status = 400 /\ UNCHANGED store)]_vars

\* C14 witness: create_movie answered 400 to a body without a title and with
\* an ill-formed duration, after a movie and a booking had been created.
C14_Witness ==
    /\ last.op = "create_movie" /\ last.status = 400
    /\ input.kind = "movie"
    /\ ~Present(input.data.title) /\ Truthy(input.data.duration)
    /\ DOMAIN movies # MovieIds
    /\ bookings # {}

\* C16: in every state that API bookings, form bookings, cancellations and
\* movie deletions reach, every live booking references a movie that exists
\* and a seat that exists.
C16_BookingsReferenceLiveRows ==
    \A b \in bookings : b.movie_id \in DOMAIN movies /\ b.seat_id \in DOMAIN seats

\* The step just taken is a cancel_booking of a live booking whose seat_id
\* has no seat row.
RanCancelOfSeatless ==
    /\ Ran("cancel_booking")
    /\ last'.id \in BookingIdsOf(bookings)
    /\ RowOf(bookings, last'.id).seat_id \notin DOMAIN seats

\* C17: cancel_booking of a live booking whose seat no longer exists answers
\* 200 and deletes that booking; no seat, no other booking and no movie
\* changes.
C17_CancelWithoutSeat ==
    [][RanCancelOfSeatless
       => /\ last'.status = 200
          /\ bookings' = bookings \ {RowOf(bookings, last'.id)}
          /\ seats' = seats
          /\ movies' = movies]_vars

\* C17 witness: a booking was cancelled in a store that holds no seat row
\* at all, and another booking is still live.
C17_Witness ==
    /\ last.op = "cancel_booking" /\ last.status = 200
    /\ DOMAIN seats = {}
    /\ bookings # {}

ReadOps ==
    {"get_movies", "get_movie", "get_seats", "get_available_seats", "get_seat",
     "get_bookings", "get_booking", "get_user_bookings"}

\* C18: a GET request, a create_movie and an update_movie leave the
\* is_booked of every seat and the set of bookings as they were.
C18_ReadsAndMovieWritesKeepBookings ==
    [][(last'.op \in ReadOps \cup {"create_movie", "update_movie"})
       => UNCHANGED <<seats, bookings>>]_vars

\* C18 witness: a movie has just been retitled while a seat is booked by a
\* live booking of that movie.
C18_Witness ==
    /\ last.op = "update_movie" /\ last.status = 200
    /\ movies[last.id].title = TitleOnly.title
    /\ \E b \in bookings : b.movie_id = last.id /\ seats[b.seat_id]

\* The ids a sequence of rows holds.
Range(q) == {q[i] : i \in 1..Len(q)}

\* C19: GET /seats/available answers 200 with exactly the seats whose
\* is_booked is false, each listed once, in every state the booking
\* requests reach.
C19_AvailableSeatsAreTheFreeSeats ==
    [][Ran("get_available_seats")
       => /\ last'.status = 200
          /\ Range(last'.rows) = {s \in DOMAIN seats : ~seats[s]}
          /\ Len(last'.rows) = Cardinality(Range(last'.rows))]_vars

\* C19 witness: the list of available seats was answered while one seat is
\* booked and another is free.
C19_Witness ==
    /\ last.op = "get_available_seats"
    /\ \E s \in DOMAIN seats : seats[s] /\ s \notin Range(last.rows)
    /\ \E s \in DOMAIN seats : ~seats[s] /\ s \in Range(last.rows)

MovieFields == {"title", "description", "release_date", "duration", "poster"}

C21_StoredTitlesNonEmpty ==
    \A m \in DOMAIN movies : movies[m].title.k = "str" /\ movies[m].title.s # <<>>

\* C22: when BookingSerializer.deserialize returns no error, the user_name it
\* returns is non-empty and is the user_name of the mapping with its
\* surrounding whitespace removed.
C22_ValidUserNameTrimmedNonEmpty ==
    (output.kind = "booking" /\ ~output.raised /\ DOMAIN output.errors = {})
    => /\ output.parsed.user_name # <<>>
       /\ input.data.user_name.k = "str"
       /\ output.parsed.user_name = Strip(input.data.user_name.s)

\* C23: when MovieSerializer.deserialize returns, description and poster are
\* each null when the field is absent from the mapping, and the text with its
\* surrounding whitespace removed when the field holds a text.
C23_AbsentTextFieldsAreNull ==
    (output.kind = "movie" /\ ~output.raised)
    => \A f \in {"description", "poster"} :
          /\ ~Present(input.data[f]) => output.parsed[f] = Null
          /\ input.data[f].k = "str" => output.parsed[f] = StrV(Strip(input.data[f].s))

\* The step just taken is a successful book_seat of seat s, or created a
\* booking on seat s through the API or the form.
BooksSeat(s) ==
    \/ last'.op = "book_seat" /\ last'.status = 200 /\ last'.id = s
    \/ last'.op = "create_booking" /\ last'.status = 201 /\ last'.seat_id = s
    \/ last'.op = "create_booking_form" /\ last'.id # 0 /\ last'.seat_id = s

\* The step just taken is a release_seat of seat s, a cancel_booking of a
\* booking on seat s, or a delete_movie of a movie with a booking on seat s.
FreesSeat(s) ==
    \/ last'.op = "release_seat" /\ last'.status = 200 /\ last'.id = s
    \/ /\ last'.op = "cancel_booking" /\ last'.status = 200
       /\ RowOf(bookings, last'.id).seat_id = s
    \/ /\ last'.op = "delete_movie" /\ last'.status = 200
       /\ \E b \in LiveOfMovie(bookings, last'.id) : b.seat_id = s

\* C24: every seat is free when the seats are set up; a step that turns a
\* seat's is_booked from false to true is a successful book_seat or booking
\* creation on that seat, and a step that turns it from true to false is a
\* release_seat, a cancel_booking or a delete_movie cascade on that seat; no
\* step adds or removes a seat.
C24_FlagChangesOnlyByNamedRequests ==
    /\ \A s \in DOMAIN seats : ~seats[s]
    /\ [][/\ DOMAIN seats' = DOMAIN seats
          /\ \A s \in DOMAIN seats :
                /\ (~seats[s] /\ seats'[s]) => BooksSeat(s)
                /\ (seats[s] /\ ~seats'[s]) => FreesSeat(s)]_vars

\* C24 witness: the form has just created a booking on a free seat, which is
\* now booked, while a seat that was booked and released is free.
C24_Witness ==
    /\ last.op = "create_booking_form" /\ last.id # 0
    /\ seats[last.seat_id]
    /\ \E b \in bookings : b.id = last.id /\ b.seat_id = last.seat_id
    /\ \E s \in DOMAIN seats : ~seats[s] /\ LiveOnSeat(bookings, s) # {}

\* C25: the core invariant and at most one live booking per seat hold in the
\* initial store, and a request that is run on a store where they hold and
\* leaves one where they do not is a book_seat, a release_seat or a
\* delete_movie; so requests run one after the other keep both as long as
\* they are create_booking and cancel_booking requests.
C25_OnlyNamedRequestsBreakInvariant ==
    /\ CoreInvariant /\ AtMostOneLivePerSeat
    /\ [][(/\ CoreInvariant /\ AtMostOneLivePerSeat
           /\ ~(CoreInvariant' /\ AtMostOneLivePerSeat'))
          => last'.op \in {"book_seat", "release_seat", "delete_movie"}]_vars

\* C25 witness: create_booking has just answered 201, every seat is booked
\* by exactly one live booking, and the invariant holds.
C25_Witness ==
    /\ last.op = "create_booking" /\ last.status = 201
    /\ \A s \in DOMAIN seats : seats[s] /\ Cardinality(LiveOnSeat(bookings, s)) = 1
    /\ CoreInvariant /\ AtMostOneLivePerSeat

\* Every seat but s keeps its is_booked, and no seat is added or removed.
OtherSeatsKept(s) ==
    /\ DOMAIN seats' = DOMAIN seats
    /\ \A t \in DOMAIN seats \ {s} : seats'[t] = seats[t]

\* C26: book_seat and release_seat of seat S change no is_booked but that of
\* S, add and delete no booking and change no movie; create_booking on seat
\* S changes no is_booked but that of S, no movie and no booking that was
\* there, and adds at most the booking it answers with; cancel_booking of a
\* booking on seat S changes no is_booked but that of S, no movie, and
\* deletes no booking but the one cancelled.
C26_FrameOfSeatAndBookingRequests ==
    [][/\ (last'.op \in {"book_seat", "release_seat"})
          => /\ OtherSeatsKept(last'.id)
             /\ bookings' = bookings
             /\ movies' = movies
       /\ Ran("create_booking")
          => /\ OtherSeatsKept(last'.seat_id)
             /\ bookings \subseteq bookings'
             /\ \A b \in bookings' \ bookings :
                   /\ b.id = last'.id /\ b.seat_id = last'.seat_id
                   /\ bookings' = bookings \cup {b}
             /\ movies' = movies
       /\ Ran("cancel_booking")
          => /\ bookings' \subseteq bookings
             /\ \A b \in bookings \ bookings' :
                   /\ b.id = last'.id
                   /\ OtherSeatsKept(b.seat_id)
             /\ (bookings' = bookings => seats' = seats)
             /\ movies' = movies]_vars

\* C26 witness: a booking has just been cancelled and its seat is free,
\* while another booking is still live and its seat still booked.
C26_Witness ==
    /\ last.op = "cancel_booking" /\ last.status = 200
    /\ \E s \in DOMAIN seats : ~seats[s] /\ LiveOnSeat(bookings, s) = {}
    /\ \E b \in bookings : seats[b.seat_id]

\* Workers p and q have both finished a create_booking request with a valid
\* body and an existing movie, for two different existing seats, neither met
\* a store failure, and no other worker has run.  Every seat is free at the
\* start, so both seats were free when the two requests began.
BothBookedApart(p, q) ==
    /\ p # q
    /\ pc[p] = "done" /\ pc[q] = "done"
    /\ \A r \in Procs \ {p, q} : pc[r] = "idle"
    /\ reply[p].op = "create_booking" /\ reply[q].op = "create_booking"
    /\ reply[p].movie_id \in DOMAIN movies /\ reply[q].movie_id \in DOMAIN movies
    /\ reply[p].seat_id \in DOMAIN seats /\ reply[q].seat_id \in DOMAIN seats
    /\ reply[p].seat_id # reply[q].seat_id
    /\ reply[p].status # 500 /\ reply[q].status # 500

\* The bookings that the requests of workers p and q leave when the request
\* of p is run to its end on the initial store and the request of q after it.
SerialBookings(p, q) ==
    LET first == {BookingRow(NextBookingId({}), req[p])}
    IN  first \cup {BookingRow(NextBookingId(first), req[q])}

\* C27: two create_booking requests for two different free seats, run with
\* their store accesses interleaved in any order, both answer 201; the seat
\* flags are those either serial order leaves (the two seats booked, every
\* other seat free) and the bookings are those one of the two serial orders
\* leaves.
C27_DifferentSeatsBothSucceed ==
    \A p, q \in Procs :
        BothBookedApart(p, q)
        => /\ reply[p].status = 201 /\ reply[q].status = 201
           /\ seats = [s \in SeatIds |-> s \in {reply[p].seat_id, reply[q].seat_id}]
           /\ bookings \in {SerialBookings(p, q), SerialBookings(q, p)}

\* C27 witness: two workers have both answered 201 for different seats, and
\* the store holds their two bookings on two booked seats.
C27_Witness ==
    \E p, q \in Procs :
        /\ BothBookedApart(p, q)
        /\ reply[p].status = 201 /\ reply[q].status = 201
        /\ Cardinality(bookings) = 2
        /\ seats[reply[p].seat_id] /\ seats[reply[q].seat_id]

\* C28: the first of two cancel_booking requests for the same id, sent one
\* right after the other, answers 200 when the booking is live and deletes
\* it; the second then answers 404 and leaves every movie, every booking and
\* every seat's is_booked as they were.
C28_SecondCancelNotFound ==
    [][\A p \in Procs :
          /\ (/\ pc[p] = "idle" /\ pc'[p] = "again"
              /\ req'[p].booking_id \in BookingIdsOf(bookings))
             => /\ reply'[p].status = 200
                /\ req'[p].booking_id \notin BookingIdsOf(bookings')
          /\ (pc[p] = "again" /\ pc'[p] = "done" /\ reply[p].status = 200)
             => /\ last'.op = "cancel_booking" /\ last'.id = reply[p].id
                /\ last'.status = 404
                /\ UNCHANGED store]_vars

\* C28 witness: a client got 200 for its first cancel and 404 for its second
\* of the same id, while the seat of another booking is booked.
C28_Witness ==
    \E p \in Procs :
        /\ pc[p] = "done"
        /\ reply[p].op = "cancel_booking" /\ reply[p].status = 200
        /\ last.op = "cancel_booking" /\ last.status = 404
        /\ last.id = reply[p].id
        /\ \E b \in bookings : seats[b.seat_id]
        /\ \E s \in DOMAIN seats : ~seats[s]

\* C29: a form request whose seat does not exist or is booked leaves
\* movies, seats and bookings as they were; a form request that adds a
\* booking adds one row, for a seat that was free, and in the same step sets
\* the is_booked of that seat and of no other.
C29_FormEnforcesSeatRule ==
    [][Ran("create_booking_form")
       => /\ (last'.seat_id \notin DOMAIN seats \/ seats[last'.seat_id])
             => UNCHANGED store
          /\ bookings' # bookings
             => /\ \E b \in bookings' \ bookings :
                      /\ bookings' = bookings \cup {b}
                      /\ b.id = last'.id /\ b.seat_id = last'.seat_id
                /\ ~seats[last'.seat_id] /\ seats'[last'.seat_id]
                /\ OtherSeatsKept(last'.seat_id)
                /\ movies' = movies]_vars

\* C29 witness: the form was refused on a seat that is booked by the one
\* booking the form created for it earlier.
C29_Witness ==
    /\ last.op = "create_booking_form" /\ last.id = 0
    /\ last.seat_id \in DOMAIN seats /\ seats[last.seat_id]
    /\ Cardinality(LiveOnSeat(bookings, last.seat_id)) = 1

====
